---- MODULE Spec2Model ----
(***************************************************************************)
(* Liquid flow of dragonfly/block/liquid.go: tickLiquid, flowInto,         *)
(* canFlowInto, sourceAround and the breadth-first path search             *)
(* calculateLiquidPaths, over a small bounded world.                       *)
(***************************************************************************)
EXTENDS Integers, Sequences, FiniteSets, TLC

VARIABLES world, last, panicked, search, steps, pool

vars == <<world, last, panicked, search, steps, pool>>

(***************************************************************************)
(* Bounds of the model.                                                    *)
(***************************************************************************)
\* Positions are <<x, y, z>> with x in 0..MaxX, y in 0..MaxY, z in 0..MaxZ.
MaxX == 1
MaxY == 1
MaxZ == 1
\* Liquid types are 1..MaxDecay; the liquid of type t has SpreadDecay t.
MaxDecay == 3
\* The number of ticks of one run, and the number of direct flowInto calls.
MaxTicks == 2
MaxCalls == 1
\* The number of concurrent searches, and the number of searches each makes.
MaxSearches == 2
MaxRuns == 2

\* Program constants.
FullDepth == 8
DecayCutoff == 4
SearchSlack == 3
MaxInt8 == 127

Pos == (0..MaxX) \X (0..MaxY) \X (0..MaxZ)

(***************************************************************************)
(* Blocks.  Every block is a record of the same shape:                     *)
(*   kind      "air", "block" (any non-liquid block) or "liquid"           *)
(*   type      LiquidType of a liquid (0 otherwise)                        *)
(*   depth     LiquidDepth of a liquid (0 otherwise)                       *)
(*   falling   LiquidFalling of a liquid                                   *)
(*   removable the block implements LiquidRemovable                        *)
(*   drops     HasLiquidDrops of a LiquidRemovable block                   *)
(*   item      the block implements world.Item                             *)
(***************************************************************************)
Air == [kind |-> "air", type |-> 0, depth |-> 0, falling |-> FALSE,
        removable |-> TRUE, drops |-> FALSE, item |-> FALSE]

SolidBlock(removable, drops, item) ==
    [kind |-> "block", type |-> 0, depth |-> 0, falling |-> FALSE,
     removable |-> removable, drops |-> drops, item |-> item]

Stone == SolidBlock(FALSE, FALSE, FALSE)

LiquidBlock(type, depth, falling) ==
    [kind |-> "liquid", type |-> type, depth |-> depth, falling |-> falling,
     removable |-> TRUE, drops |-> FALSE, item |-> FALSE]

IsLiquid(b) == b.kind = "liquid"

LiquidDepth(b) == b.depth

LiquidFalling(b) == b.falling

LiquidType(b) == b.type

SpreadDecay(b) == b.type

WithDepth(b, depth, falling) == [b EXCEPT !.depth = depth, !.falling = falling]

(***************************************************************************)
(* The world collaborator.  A position outside the bounded region holds a  *)
(* block that is neither a liquid nor LiquidRemovable, so it is never      *)
(* written.                                                                *)
(***************************************************************************)
Block(w, pos) == IF pos \in Pos THEN w[pos] ELSE Stone

PlaceBlock(w, pos, b) == IF pos \in Pos THEN [w EXCEPT ![pos] = b] ELSE w

BreakBlock(w, pos) == PlaceBlock(w, pos, Air)

Add(pos, d) == <<pos[1] + d[1], pos[2] + d[2], pos[3] + d[3]>>

Below(pos) == Add(pos, <<0, -1, 0>>)

Above(pos) == Add(pos, <<0, 1, 0>>)

\* The horizontal neighbours, in the order pos.Neighbours visits them.
HorizontalNeighbours(pos) ==
    << Add(pos, <<-1, 0, 0>>), Add(pos, <<1, 0, 0>>),
       Add(pos, <<0, 0, -1>>), Add(pos, <<0, 0, 1>>) >>

Neighbours(pos) ==
    << Add(pos, <<-1, 0, 0>>), Add(pos, <<1, 0, 0>>),
       Below(pos), Above(pos),
       Add(pos, <<0, 0, -1>>), Add(pos, <<0, 0, 1>>) >>

Range(s) == {s[i] : i \in DOMAIN s}

(***************************************************************************)
(* source, sourceAround, canFlowInto.                                      *)
(***************************************************************************)
source(b) == LiquidDepth(b) = FullDepth /\ ~LiquidFalling(b)

\* Faulty variant: a neighbour of equal depth sustains as well.
sourceAroundOrEqual(b, pos, w) ==
    \E neighbour \in Range(Neighbours(pos)) :
        /\ neighbour[2] # pos[2] - 1
        /\ LET side == Block(w, neighbour) IN
             /\ IsLiquid(side)
             /\ LiquidType(side) = LiquidType(b)
             /\ \/ neighbour[2] = pos[2] + 1
                \/ source(side)
                \/ LiquidDepth(side) >= LiquidDepth(b)

\* Faulty variant: the neighbour below is looked at as well.
sourceAroundAnyNeighbour(b, pos, w) ==
    \E neighbour \in Range(Neighbours(pos)) :
        LET side == Block(w, neighbour) IN
          /\ IsLiquid(side)
          /\ LiquidType(side) = LiquidType(b)
          /\ \/ neighbour[2] = pos[2] + 1
             \/ source(side)
             \/ LiquidDepth(side) > LiquidDepth(b)

sourceAround(b, pos, w) ==
    \E neighbour \in Range(Neighbours(pos)) :
        /\ neighbour[2] # pos[2] - 1
        /\ LET side == Block(w, neighbour) IN
             /\ IsLiquid(side)
             /\ LiquidType(side) = LiquidType(b)
             /\ \/ neighbour[2] = pos[2] + 1
                \/ source(side)
                \/ LiquidDepth(side) > LiquidDepth(b)

canFlowInto(b, w, pos, sideways) ==
    LET existing == Block(w, pos) IN
    IF existing.kind = "air" THEN TRUE
    ELSE IF existing.removable /\ sideways /\ IsLiquid(existing)
            /\ (LiquidDepth(existing) = FullDepth \/ LiquidType(existing) # LiquidType(b))
         THEN FALSE
         ELSE existing.removable

(***************************************************************************)
(* Harden is implemented by each liquid outside liquid.go: it "sets the    *)
(* position to the hardened block when adequate".  Whether it does is the  *)
(* input h; the hardened block is a solid block no liquid removes.         *)
(***************************************************************************)
HardenOutcomes == {"none", "hardened"}

Harden(existing, pos, w, src, h) ==
    IF h = "hardened" THEN PlaceBlock(w, pos, Stone) ELSE w

(***************************************************************************)
(* flowInto.  The result holds the world after the call, the value         *)
(* returned, the calls made on the world and on the existing block, in     *)
(* order, and whether the call panicked (ret is then meaningless).         *)
(***************************************************************************)
FlowResult(w, ret, calls, panic) ==
    [w |-> w, ret |-> ret, calls |-> calls, panicked |-> panic]

newDepthOf(b, falling) ==
    IF falling THEN LiquidDepth(b) ELSE LiquidDepth(b) - SpreadDecay(b)

\* Faulty variant: a new depth of 0 is let through.
depthExhaustedBelowZero(b, falling) == newDepthOf(b, falling) < 0 /\ ~falling

depthExhausted(b, falling) == newDepthOf(b, falling) <= 0 /\ ~falling

\* Faulty variant: an existing liquid of equal depth is overwritten.
saturatedStrict(existingLiquid, newDepth) ==
    LiquidDepth(existingLiquid) > newDepth \/ LiquidFalling(existingLiquid)

\* Faulty variant: a falling existing liquid is not taken as full.
saturatedByDepthOnly(existingLiquid, newDepth) ==
    LiquidDepth(existingLiquid) >= newDepth

\* Faulty variant: only a falling existing liquid is taken as full.
saturatedOnlyFalling(existingLiquid, newDepth) == LiquidFalling(existingLiquid)

saturated(existingLiquid, newDepth) ==
    LiquidDepth(existingLiquid) >= newDepth \/ LiquidFalling(existingLiquid)

\* Faulty variant: every block with drops is taken to lack the item.
missingItemAlways(existing) == existing.drops

missingItem(existing) == existing.drops /\ ~existing.item

\* Faulty variant: the item is looked for before the block is broken.
flowIntoRemovableCheckFirst(b, pos, w, falling, existing) ==
    LET newDepth == newDepthOf(b, falling)
        broken == existing.kind # "air"
        w1 == IF broken THEN BreakBlock(w, pos) ELSE w
        c1 == IF broken THEN << <<"BreakBlock", pos>> >> ELSE << >>
        placed == WithDepth(b, newDepth, falling)
    IN  IF missingItem(existing)
        THEN FlowResult(w, FALSE, << >>, TRUE)
        ELSE FlowResult(PlaceBlock(w1, pos, placed), TRUE,
                        Append(c1, <<"PlaceBlock", pos, placed>>), FALSE)

flowIntoRemovable(b, pos, w, falling, existing) ==
    LET newDepth == newDepthOf(b, falling)
        broken == existing.kind # "air"
        w1 == IF broken THEN BreakBlock(w, pos) ELSE w
        c1 == IF broken THEN << <<"BreakBlock", pos>> >> ELSE << >>
        placed == WithDepth(b, newDepth, falling)
    IN  IF missingItem(existing)
        THEN FlowResult(w1, FALSE, c1, TRUE)
        ELSE FlowResult(PlaceBlock(w1, pos, placed), TRUE,
                        Append(c1, <<"PlaceBlock", pos, placed>>), FALSE)

\* Faulty variant: the contact with another liquid is reported as a flow.
flowIntoOtherLiquidSucceeds(existing, src, pos, w, h) ==
    FlowResult(Harden(existing, pos, w, src, h), TRUE, << <<"Harden", pos, src>> >>, FALSE)

flowIntoOtherLiquid(existing, src, pos, w, h) ==
    FlowResult(Harden(existing, pos, w, src, h), FALSE, << <<"Harden", pos, src>> >>, FALSE)

flowInto(b, src, pos, w, falling, h) ==
    LET newDepth == newDepthOf(b, falling)
        existing == Block(w, pos)
        placed == WithDepth(b, newDepth, falling)
    IN  IF depthExhausted(b, falling) THEN FlowResult(w, FALSE, << >>, FALSE)
        ELSE IF IsLiquid(existing) /\ LiquidType(existing) = LiquidType(b)
        THEN IF saturated(existing, newDepth)
             THEN FlowResult(w, TRUE, << >>, FALSE)
             ELSE FlowResult(PlaceBlock(w, pos, placed), TRUE,
                             << <<"PlaceBlock", pos, placed>> >>, FALSE)
        ELSE IF IsLiquid(existing) THEN flowIntoOtherLiquid(existing, src, pos, w, h)
        ELSE IF ~existing.removable THEN FlowResult(w, FALSE, << >>, FALSE)
        ELSE flowIntoRemovable(b, pos, w, falling, existing)

(***************************************************************************)
(* The path search.  A liquidNode is [x, z, depth, path]: path is the      *)
(* chain of previous pointers read from the root's neighbour to the node   *)
(* itself, as <<x, z>> pairs, so the root has the empty path.  The search  *)
(* state is the liquidQueue (nodes, i, shortestPath) with the paths found. *)
(***************************************************************************)
Int8(v) == ((v + 128) % 256) - 128

liquidNode(x, z, depth, path) == [x |-> x, z |-> z, depth |-> depth, path |-> path]

NodeLen(node) == Len(node.path)

\* Faulty variant: the path runs from the node back to the root.
NodePathReversed(node, src) ==
    [i \in 1..Len(node.path) |->
        <<node.path[Len(node.path) + 1 - i][1], src[2], node.path[Len(node.path) + 1 - i][2]>>]

NodePath(node, src) == [i \in 1..Len(node.path) |->
                          <<node.path[i][1], src[2], node.path[i][2]>>]

neighbourNode(node, dx, dz, decay) ==
    liquidNode(node.x + dx, node.z + dz, Int8(node.depth - decay),
               Append(node.path, <<node.x + dx, node.z + dz>>))

neighbours(node, decay) ==
    << neighbourNode(node, -1, 0, decay), neighbourNode(node, 1, 0, decay),
       neighbourNode(node, 0, -1, decay), neighbourNode(node, 0, 1, decay) >>

NewQueue == [nodes |-> << >>, i |-> 0, shortestPath |-> MaxInt8, paths |-> << >>]

PushBack(q, node) == [q EXCEPT !.nodes = Append(q.nodes, node)]

QueueLen(q) == Len(q.nodes) - q.i

\* Faulty variant: the search goes on for twice the slack.
depthSpentLate(node) == Int8(node.depth + 2 * SearchSlack) <= 0

depthSpent(node) == Int8(node.depth + SearchSlack) <= 0

\* Faulty variant: no path is ever too long.
tooLongNever(node, queue) == FALSE

tooLong(node, queue) == NodeLen(node) > queue.shortestPath

\* spreadNeighbour: whether the node ends a path, and the queue afterwards.
spreadNeighbour(b, src, w, node, queue) ==
    LET pos == <<node.x, src[2], node.z>> IN
    IF depthSpent(node) THEN [found |-> FALSE, queue |-> queue]
    ELSE IF tooLong(node, queue) THEN [found |-> FALSE, queue |-> queue]
    ELSE IF ~canFlowInto(b, w, pos, TRUE) THEN [found |-> FALSE, queue |-> queue]
    ELSE IF canFlowInto(b, w, Below(pos), FALSE) THEN [found |-> TRUE, queue |-> queue]
    ELSE [found |-> FALSE, queue |-> PushBack(queue, node)]

\* One neighbour of the loop body of calculateLiquidPaths.
visitNeighbour(b, pos, w, neigh, queue) ==
    LET r == spreadNeighbour(b, pos, w, neigh, queue) IN
    IF r.found
    THEN [r.queue EXCEPT !.shortestPath = NodeLen(neigh),
                         !.paths = Append(r.queue.paths, NodePath(neigh, pos))]
    ELSE r.queue

\* One iteration of the loop: take the front node, visit its four neighbours.
searchStep(b, pos, w, queue) ==
    LET node == queue.nodes[queue.i + 1]
        q0 == [queue EXCEPT !.i = queue.i + 1]
        n == neighbours(node, Int8(Int8(SpreadDecay(b)) * 2))
        q1 == visitNeighbour(b, pos, w, n[1], q0)
        q2 == visitNeighbour(b, pos, w, n[2], q1)
        q3 == visitNeighbour(b, pos, w, n[3], q2)
    IN  visitNeighbour(b, pos, w, n[4], q3)

startSearch(b, pos) ==
    PushBack(NewQueue, liquidNode(pos[1], pos[3], Int8(LiquidDepth(b)), << >>))

RECURSIVE runSearch(_, _, _, _)
runSearch(b, pos, w, queue) ==
    IF QueueLen(queue) = 0 THEN queue.paths
    ELSE runSearch(b, pos, w, searchStep(b, pos, w, queue))

calculateLiquidPaths(b, pos, w) == runSearch(b, pos, w, startSearch(b, pos))

(***************************************************************************)
(* tickLiquid.  The state threaded through the flowInto calls of one tick: *)
(* the world, the calls made on it, the flowInto calls made (liquid,       *)
(* target, falling, value returned) and whether one of them panicked, which*)
(* ends the tick there.                                                    *)
(***************************************************************************)
TickStart(w) == [w |-> w, calls |-> << >>, flows |-> << >>, panicked |-> FALSE,
                 branch |-> "none", paths |-> << >>]

flowStep(st, b, src, pos, falling, h) ==
    IF st.panicked THEN st
    ELSE LET r == flowInto(b, src, pos, st.w, falling, h) IN
         [st EXCEPT !.w = r.w, !.calls = st.calls \o r.calls,
                    !.flows = Append(st.flows, [b |-> b, pos |-> pos, falling |-> falling,
                                                ret |-> r.ret, panicked |-> r.panicked]),
                    !.panicked = r.panicked]

RECURSIVE flowEach(_, _, _, _, _)
flowEach(st, b, src, targets, h) ==
    IF targets = << >> THEN st
    ELSE flowEach(flowStep(st, b, src, Head(targets), FALSE, h), b, src, Tail(targets), h)

\* Faulty variant: the neighbours above and below are flowed into as well.
spreadOutwardsAllSides(st, b, pos, h) == flowEach(st, b, pos, Neighbours(pos), h)

spreadOutwards(st, b, pos, h) == flowEach(st, b, pos, HorizontalNeighbours(pos), h)

\* Faulty variant: the last step of each chosen path instead of the first.
pathTargetsLastStep(paths) ==
    LET smallestLen == Len(paths[1])
        chosen == SelectSeq(paths, LAMBDA path : Len(path) <= smallestLen)
    IN  [i \in 1..Len(chosen) |-> chosen[i][Len(chosen[i])]]

\* The first step of every path no longer than the first path returned.
pathTargets(paths) ==
    LET smallestLen == Len(paths[1])
        chosen == SelectSeq(paths, LAMBDA path : Len(path) <= smallestLen)
    IN  [i \in 1..Len(chosen) |-> chosen[i][1]]

sustained(b, pos, w) == source(b) \/ sourceAround(b, pos, w)

\* Faulty variant: the block is removed only below the cutoff.
decayTickLateCutoff(b, pos, w) ==
    IF LiquidDepth(b) - DecayCutoff < 0
    THEN [w |-> PlaceBlock(w, pos, Air), calls |-> << <<"PlaceBlock", pos, Air>> >>,
          flows |-> << >>, panicked |-> FALSE, branch |-> "remove", paths |-> << >>]
    ELSE LET nb == WithDepth(b, LiquidDepth(b) - 2 * SpreadDecay(b), FALSE) IN
         [w |-> PlaceBlock(w, pos, nb), calls |-> << <<"PlaceBlock", pos, nb>> >>,
          flows |-> << >>, panicked |-> FALSE, branch |-> "decay", paths |-> << >>]

\* Faulty variant: the depth decays by the spread decay once, not twice.
decayTickSingle(b, pos, w) ==
    IF LiquidDepth(b) - DecayCutoff <= 0
    THEN [w |-> PlaceBlock(w, pos, Air), calls |-> << <<"PlaceBlock", pos, Air>> >>,
          flows |-> << >>, panicked |-> FALSE, branch |-> "remove", paths |-> << >>]
    ELSE LET nb == WithDepth(b, LiquidDepth(b) - SpreadDecay(b), FALSE) IN
         [w |-> PlaceBlock(w, pos, nb), calls |-> << <<"PlaceBlock", pos, nb>> >>,
          flows |-> << >>, panicked |-> FALSE, branch |-> "decay", paths |-> << >>]

decayTick(b, pos, w) ==
    IF LiquidDepth(b) - DecayCutoff <= 0
    THEN [w |-> PlaceBlock(w, pos, Air), calls |-> << <<"PlaceBlock", pos, Air>> >>,
          flows |-> << >>, panicked |-> FALSE, branch |-> "remove", paths |-> << >>]
    ELSE LET nb == WithDepth(b, LiquidDepth(b) - 2 * SpreadDecay(b), FALSE) IN
         [w |-> PlaceBlock(w, pos, nb), calls |-> << <<"PlaceBlock", pos, nb>> >>,
          flows |-> << >>, panicked |-> FALSE, branch |-> "decay", paths |-> << >>]

lateralSpread(st, b, pos, h) ==
    LET paths == calculateLiquidPaths(b, pos, st.w) IN
    IF Len(paths) = 0
    THEN [spreadOutwards(st, b, pos, h) EXCEPT !.branch = "outwards"]
    ELSE [flowEach(st, b, pos, pathTargets(paths), h)
             EXCEPT !.branch = "paths", !.paths = paths]

\* Faulty variant: the liquid falls with the depth it has.
fallingCopyOwnDepth(b) == WithDepth(b, LiquidDepth(b), TRUE)

\* The liquid that is pushed into the position below.
fallingCopy(b) == WithDepth(b, FullDepth, TRUE)

\* Faulty variant: a falling liquid spreads with the depth it stores.
spreadingLiquidStored(b, canFlowBelow) == b

\* The liquid the rest of the tick goes on with.
spreadingLiquid(b, canFlowBelow) ==
    IF LiquidFalling(b) /\ ~canFlowBelow THEN WithDepth(b, FullDepth, TRUE) ELSE b

flowTick(b, pos, w, h) ==
    LET canFlowBelow == canFlowInto(b, w, Below(pos), FALSE)
        b1 == spreadingLiquid(b, canFlowBelow)
        st0 == TickStart(w)
        st1 == IF canFlowBelow
               THEN flowStep(st0, fallingCopy(b), pos, Below(pos), TRUE, h)
               ELSE st0
    IN  IF st1.panicked THEN st1
        ELSE IF LiquidDepth(b1) <= SpreadDecay(b1) THEN st1
        ELSE IF source(b1) \/ ~canFlowBelow THEN lateralSpread(st1, b1, pos, h)
        ELSE st1

tickLiquid(b, pos, w, h) ==
    IF ~sustained(b, pos, w) THEN decayTick(b, pos, w) ELSE flowTick(b, pos, w, h)

(***************************************************************************)
(* The worlds the runs start from: a terrain, one liquid in the column     *)
(* x = 0, z = 0 and at most one more block next to it.                     *)
(***************************************************************************)
LiquidTypes == 1..MaxDecay

Depths == 1..FullDepth

\* The terrains: all air; a solid bottom layer with one hole in the far
\* corner; a solid bottom layer under x = 0 only.
Terrains == {"open", "pit", "ledge"}

TerrainBlock(t, pos) ==
    IF pos[2] # 0 \/ t = "open" THEN Air
    ELSE IF t = "pit" /\ pos[1] = MaxX /\ pos[3] = MaxZ THEN Air
    ELSE IF t = "ledge" /\ pos[1] # 0 THEN Air
    ELSE Stone

Terrain(t) == [pos \in Pos |-> TerrainBlock(t, pos)]

\* Liquids that are not falling at every depth, falling ones at full depth
\* and at the least depth.
Liquids == {LiquidBlock(t, d, FALSE) : t \in LiquidTypes, d \in Depths}
           \cup {LiquidBlock(t, d, TRUE) : t \in LiquidTypes, d \in {1, FullDepth}}

\* Non-liquid blocks: not removable; removable without drops; removable with
\* drops and an item; removable with drops but no item.
Plant == SolidBlock(TRUE, FALSE, FALSE)

Solids == {Stone, Plant, SolidBlock(TRUE, TRUE, TRUE), SolidBlock(TRUE, TRUE, FALSE)}

OtherType(t) == (t % MaxDecay) + 1

\* What stands next to the liquid l in the worlds that are ticked.
Others(l) == {Stone, Plant, LiquidBlock(LiquidType(l), FullDepth, FALSE),
              LiquidBlock(OtherType(LiquidType(l)), FullDepth, FALSE)}

\* What a direct flowInto call of the liquid l may meet.
Targets(l) == Solids \cup
              {LiquidBlock(t, d, f) : t \in {LiquidType(l), OtherType(LiquidType(l))},
                                      d \in {1, FullDepth}, f \in BOOLEAN}

Column == {pos \in Pos : pos[1] = 0 /\ pos[3] = 0}

Top == <<0, MaxY, 0>>

WorldWith(t, p, l, q, o) ==
    IF q = p THEN PlaceBlock(Terrain(t), p, l)
    ELSE PlaceBlock(PlaceBlock(Terrain(t), p, l), q, o)

\* What the last operation was: the liquid and the positions it was called
\* with, the block that stood at pos before it, and what it did.
NoLast == [op |-> "none", b |-> Air, src |-> <<0, 0, 0>>, pos |-> <<0, 0, 0>>,
           falling |-> FALSE, existing |-> Air, ret |-> FALSE, branch |-> "none",
           flows |-> << >>, calls |-> << >>, paths |-> << >>,
           h |-> "none", before |-> <<"none", <<0, 0, 0>>, Air>>]

\* The operation, position and liquid of the operation before the next one.
Before(l) == <<l.op, l.pos, l.b>>

\* liquidQueuePool and the searches that use it: the queues made so far, the
\* ones in the pool, and per search its position in calculateLiquidPaths,
\* the queue it holds (0: none), its liquid, its paths and how often it ran.
Searches == 1..MaxSearches

IdleSearch == [pc |-> "idle", q |-> 0, b |-> Air, pos |-> <<0, 0, 0>>,
               paths |-> << >>, runs |-> 0]

NoPool == [queues |-> << >>, free |-> {}, procs |-> [s \in Searches |-> IdleSearch]]

Idle == [pc |-> "idle", b |-> Air, pos |-> <<0, 0, 0>>, queue |-> NewQueue,
         result |-> << >>]

\* q = p stands for no other block.
Init ==
    /\ \E t \in Terrains, p \in Column, l \in Liquids :
         \E q \in {p} \cup (Range(Neighbours(p)) \cap Pos) :
            \E o \in (IF q = p THEN {Air} ELSE Others(l)) :
               world = WorldWith(t, p, l, q, o)
    /\ last = NoLast
    /\ panicked = FALSE
    /\ search = Idle
    /\ steps = 0
    /\ pool = NoPool

(***************************************************************************)
(* Tick(pos, h): the scheduler ticks the liquid at pos.                    *)
(***************************************************************************)
\* Harden can only be called on a neighbour that holds another liquid.
HardenChoices(w, pos) ==
    IF \E n \in Range(Neighbours(pos)) :
          IsLiquid(Block(w, n)) /\ LiquidType(Block(w, n)) # LiquidType(w[pos])
    THEN HardenOutcomes ELSE {"none"}

Tick(pos, h) ==
    /\ ~panicked
    /\ steps < MaxTicks
    /\ IsLiquid(world[pos])
    /\ LET b == world[pos]
           r == tickLiquid(b, pos, world, h)
       IN  /\ world' = r.w
           /\ panicked' = r.panicked
           /\ last' = [NoLast EXCEPT !.op = "tick", !.b = b, !.src = pos, !.pos = pos,
                                     !.existing = b,
                                     !.branch = r.branch, !.flows = r.flows,
                                     !.calls = r.calls, !.paths = r.paths,
                                     !.h = h, !.before = Before(last)]
    /\ steps' = steps + 1
    /\ UNCHANGED <<search, pool>>

Next == \E pos \in Pos : \E h \in HardenChoices(world, pos) : Tick(pos, h)

Spec == Init /\ [][Next]_vars

(***************************************************************************)
(* Ticks without end, in worlds of one liquid type of decay 1 or 2 that    *)
(* hold no source and no falling liquid of less than full depth.  The      *)
(* scheduler ticks every liquid again and again.                           *)
(***************************************************************************)
DrainTick(pos) ==
    /\ IsLiquid(world[pos])
    /\ world' = tickLiquid(world[pos], pos, world, "none").w
    /\ UNCHANGED <<last, panicked, search, steps, pool>>

\* The tick of the liquid at pos would change the world.
TickChanges(pos) ==
    /\ IsLiquid(world[pos])
    /\ tickLiquid(world[pos], pos, world, "none").w # world

DrainTypes == {t \in LiquidTypes : t <= 2}

DrainLiquids(t) == {LiquidBlock(t, d, FALSE) : d \in 1..(FullDepth - 1)}
                   \cup {LiquidBlock(t, FullDepth, TRUE)}

InitDrain ==
    /\ \E t \in Terrains, p \in Column, k \in DrainTypes :
         \E l \in DrainLiquids(k), q \in {p} \cup (Range(Neighbours(p)) \cap Pos) :
            \E o \in (IF q = p THEN {Air} ELSE DrainLiquids(k)) :
               world = WorldWith(t, p, l, q, o)
    /\ last = NoLast
    /\ panicked = FALSE
    /\ search = Idle
    /\ steps = 0
    /\ pool = NoPool

NextDrain == \E pos \in Pos : DrainTick(pos)

SpecDrain == InitDrain /\ [][NextDrain]_vars

\* Weak fairness of the tick of every position, written out: the tick of
\* pos is enabled, and changes the state, exactly where TickChanges(pos).
FairSpecDrain ==
    SpecDrain /\ \A pos \in Pos : ([]<>(~TickChanges(pos)) \/ []<><<DrainTick(pos)>>_vars)

(***************************************************************************)
(* FlowInto: one call of flowInto as tickLiquid and spreadOutwards make it,*)
(* from the position src of a liquid into a neighbour pos, with the liquid *)
(* at src, falling or not.                                                 *)
(***************************************************************************)
FlowInto(src, pos, falling, h) ==
    /\ ~panicked
    /\ steps < MaxCalls
    /\ IsLiquid(world[src])
    /\ LET b == world[src]
           r == flowInto(b, src, pos, world, falling, h)
       IN  /\ world' = r.w
           /\ panicked' = r.panicked
           /\ last' = [NoLast EXCEPT !.op = "flowInto", !.b = b, !.src = src, !.pos = pos,
                                     !.falling = falling, !.existing = Block(world, pos),
                                     !.ret = r.ret, !.calls = r.calls,
                                     !.h = h, !.before = Before(last)]
    /\ steps' = steps + 1
    /\ UNCHANGED <<search, pool>>

InitFlow ==
    /\ \E l \in Liquids :
         \E q \in {Top} \cup (Range(Neighbours(Top)) \cap Pos) :
            \E o \in (IF q = Top THEN {Air} ELSE Targets(l)) :
               world = WorldWith("open", Top, l, q, o)
    /\ last = NoLast
    /\ panicked = FALSE
    /\ search = Idle
    /\ steps = 0
    /\ pool = NoPool

\* Harden can only be called when pos holds another liquid.
FlowHardenChoices(w, src, pos) ==
    IF IsLiquid(Block(w, pos)) /\ LiquidType(Block(w, pos)) # LiquidType(w[src])
    THEN HardenOutcomes ELSE {"none"}

NextFlow ==
    \E src \in Pos : \E pos \in Range(Neighbours(src)) :
        \E falling \in BOOLEAN, h \in FlowHardenChoices(world, src, pos) :
            FlowInto(src, pos, falling, h)

SpecFlow == InitFlow /\ [][NextFlow]_vars

(***************************************************************************)
(* The path search, one loop iteration at a time.                          *)
(***************************************************************************)
StartSearch(pos) ==
    /\ search.pc # "loop"
    /\ IsLiquid(world[pos])
    /\ search' = [pc |-> "loop", b |-> world[pos], pos |-> pos,
                  queue |-> startSearch(world[pos], pos), result |-> << >>]
    /\ UNCHANGED <<world, last, panicked, steps, pool>>

SearchLoop ==
    /\ search.pc = "loop"
    /\ QueueLen(search.queue) # 0
    /\ search' = [search EXCEPT !.queue = searchStep(search.b, search.pos, world, search.queue)]
    /\ UNCHANGED <<world, last, panicked, steps, pool>>

\* The loop ends; the deferred function resets the queue.
SearchReturn ==
    /\ search.pc = "loop"
    /\ QueueLen(search.queue) = 0
    /\ search' = [search EXCEPT !.pc = "done", !.result = search.queue.paths,
                                !.queue = NewQueue]
    /\ UNCHANGED <<world, last, panicked, steps, pool>>

\* Faulty variant: Reset keeps the bound the search found.
ResetKeepsBound(q) == [q EXCEPT !.nodes = << >>, !.i = 0]

Reset(q) == [q EXCEPT !.nodes = << >>, !.i = 0, !.shortestPath = MaxInt8]

NextSearch == (\E pos \in Pos : StartSearch(pos)) \/ SearchLoop \/ SearchReturn

SpecSearch == Init /\ [][NextSearch]_vars

\* A search that has started goes on, its caller running it to its end:
\* weak fairness of the return and of the loop, the latter written out.  An
\* iteration is enabled, and changes the state, exactly while the search is
\* in its loop with a node left in the queue.
FairSpecSearch ==
    /\ SpecSearch
    /\ WF_vars(SearchReturn)
    /\ \/ []<>(~(search.pc = "loop" /\ QueueLen(search.queue) # 0))
       \/ []<><<SearchLoop>>_vars

(***************************************************************************)
(* sourceAround on its own: one call for the liquid at pos, in worlds with *)
(* any liquid at one neighbour and possibly a block at a second one.       *)
(***************************************************************************)
SourceAround(pos) ==
    /\ steps < MaxCalls
    /\ IsLiquid(world[pos])
    /\ last' = [NoLast EXCEPT !.op = "sourceAround", !.b = world[pos], !.pos = pos,
                              !.ret = sourceAround(world[pos], pos, world)]
    /\ steps' = steps + 1
    /\ UNCHANGED <<world, panicked, search, pool>>

\* Liquids of every type and depth, falling or not.
AllLiquids == {LiquidBlock(t, d, f) : t \in LiquidTypes, d \in Depths, f \in BOOLEAN}

\* What may stand at the first neighbour of the liquid l, and at the second.
Sides(l) == {Stone} \cup {LiquidBlock(t, d, f) : t \in {LiquidType(l), OtherType(LiquidType(l))},
                                                  d \in Depths, f \in BOOLEAN}

SecondSides(l) == {LiquidBlock(LiquidType(l), LiquidDepth(l), FALSE),
                   LiquidBlock(OtherType(LiquidType(l)), FullDepth, FALSE)}

InitSourceAround ==
    /\ \E p \in Column, l \in AllLiquids :
         \E q \in Range(Neighbours(p)) \cap Pos, o \in Sides(l) :
            \E r \in Range(Neighbours(p)) \cap Pos :
               \E o2 \in (IF r = q THEN {Air} ELSE SecondSides(l)) :
                  world = PlaceBlock(WorldWith("open", p, l, q, o), r,
                                     IF r = q THEN o ELSE o2)
    /\ last = NoLast
    /\ panicked = FALSE
    /\ search = Idle
    /\ steps = 0
    /\ pool = NoPool

NextSourceAround == \E pos \in Column : SourceAround(pos)

SpecSourceAround == InitSourceAround /\ [][NextSourceAround]_vars

(***************************************************************************)
(* Concurrent searches on liquidQueuePool.  Get takes a queue out of the   *)
(* pool or, the pool being free to come up empty, makes one with New.      *)
(***************************************************************************)
\* liquidQueuePool.Get() by the search s for the liquid at pos.
PoolGet(s, pos) ==
    /\ pool.procs[s].pc = "idle"
    /\ pool.procs[s].runs < MaxRuns
    /\ IsLiquid(world[pos])
    /\ \/ \E id \in pool.free :
             pool' = [pool EXCEPT !.free = pool.free \ {id},
                                  !.procs[s] = [pool.procs[s] EXCEPT
                                      !.pc = "got", !.q = id, !.b = world[pos],
                                      !.pos = pos, !.paths = << >>]]
       \/ /\ Len(pool.queues) < MaxSearches
          /\ pool' = [pool EXCEPT !.queues = Append(pool.queues, NewQueue),
                                  !.procs[s] = [pool.procs[s] EXCEPT
                                      !.pc = "got", !.q = Len(pool.queues) + 1,
                                      !.b = world[pos], !.pos = pos, !.paths = << >>]]
    /\ UNCHANGED <<world, last, panicked, search, steps>>

\* queue.PushBack of the root node.
PoolBegin(s) ==
    LET pr == pool.procs[s] IN
    /\ pr.pc = "got"
    /\ pool' = [pool EXCEPT
                   !.queues[pr.q] = PushBack(pool.queues[pr.q],
                                             liquidNode(pr.pos[1], pr.pos[3],
                                                        Int8(LiquidDepth(pr.b)), << >>)),
                   !.procs[s].pc = "loop"]
    /\ UNCHANGED <<world, last, panicked, search, steps>>

\* One iteration of the loop of the search s on the queue it holds.
PoolLoop(s) ==
    LET pr == pool.procs[s]
        q == [pool.queues[pr.q] EXCEPT !.paths = pr.paths]
        q2 == searchStep(pr.b, pr.pos, world, q)
    IN  /\ pr.pc = "loop"
        /\ QueueLen(pool.queues[pr.q]) # 0
        /\ pool' = [pool EXCEPT !.queues[pr.q] = [q2 EXCEPT !.paths = << >>],
                                !.procs[s].paths = q2.paths]
        /\ UNCHANGED <<world, last, panicked, search, steps>>

\* The loop ends: the deferred function resets the queue and puts it back.
PoolPut(s) ==
    LET pr == pool.procs[s] IN
    /\ pr.pc = "loop"
    /\ QueueLen(pool.queues[pr.q]) = 0
    /\ pool' = [pool EXCEPT !.queues[pr.q] = Reset(pool.queues[pr.q]),
                            !.free = pool.free \cup {pr.q},
                            !.procs[s] = [pr EXCEPT !.pc = "idle", !.q = 0,
                                                    !.runs = pr.runs + 1]]
    /\ UNCHANGED <<world, last, panicked, search, steps>>

\* The worlds the concurrent searches run in: a liquid of the first type in
\* the column, at a depth that lets the search go one step or many.
InitPool ==
    /\ \E t \in Terrains, p \in Column, d \in {SearchSlack, FullDepth} :
          world = WorldWith(t, p, LiquidBlock(1, d, FALSE), p, Air)
    /\ last = NoLast
    /\ panicked = FALSE
    /\ search = Idle
    /\ steps = 0
    /\ pool = NoPool

NextPool ==
    \E s \in Searches :
        \/ \E pos \in Pos : PoolGet(s, pos)
        \/ PoolBegin(s)
        \/ PoolLoop(s)
        \/ PoolPut(s)

SpecPool == InitPool /\ [][NextPool]_vars

(***************************************************************************)
(* Definitions the properties are stated with.                             *)
(***************************************************************************)
SameType(a, b) == IsLiquid(a) /\ IsLiquid(b) /\ LiquidType(a) = LiquidType(b)

\* All liquids of the world are of one type.
SingleType(w) == \A p, q \in Pos : (IsLiquid(w[p]) /\ IsLiquid(w[q])) => SameType(w[p], w[q])

IsSource(b) == IsLiquid(b) /\ b.depth = FullDepth /\ ~b.falling

\* A same-type liquid directly above, or a same-type liquid at a horizontal
\* neighbour that is a source or deeper.
HasSustainingNeighbour(b, pos, w) ==
    \/ SameType(Block(w, Above(pos)), b)
    \/ \E n \in Range(HorizontalNeighbours(pos)) :
          /\ SameType(Block(w, n), b)
          /\ (IsSource(Block(w, n)) \/ Block(w, n).depth > b.depth)

\* The step is a tick of a liquid that is no source and has no sustaining
\* neighbour (last' describes the step, world the world before it).
PureDecayStep ==
    /\ last'.op = "tick"
    /\ ~IsSource(last'.b)
    /\ ~HasSustainingNeighbour(last'.b, last'.pos, world)

\* The positions the flowInto calls of the last tick that were not falling
\* went to.
LateralTargets(l) == {l.flows[i].pos : i \in {j \in DOMAIN l.flows : ~l.flows[j].falling}}

MinLen(paths) == CHOOSE n \in {Len(paths[i]) : i \in DOMAIN paths} :
                    \A i \in DOMAIN paths : n <= Len(paths[i])

\* The step is a flowInto call that gets past the depth check.
FlowStep == last'.op = "flowInto"

Delivered(l) == IF l.falling THEN l.b.depth ELSE l.b.depth - l.b.type

Exhausted(l) == ~l.falling /\ l.b.depth - l.b.type <= 0

FatalTarget(e) == e.kind # "liquid" /\ e.removable /\ e.drops /\ ~e.item

(***************************************************************************)
(* C1.  Every liquid of the world has a depth within 1..8 after any        *)
(* sequence of ticks, the liquids of the first world having depths within  *)
(* 1..8 and a spread decay of at least 1.                                  *)
(***************************************************************************)
C1_DepthInRange ==
    \A p \in Pos : IsLiquid(world[p]) => world[p].depth \in 1..FullDepth

(***************************************************************************)
(* C2.  In a world of one liquid type no step changes the block at a       *)
(* position that holds a source; and whatever the neighbours are, the tick *)
(* of a source does not write the source's own position.                   *)
(***************************************************************************)
C2_SourcePermanent ==
    [][ /\ \A p \in Pos : (IsSource(world[p]) /\ SingleType(world)) => world'[p] = world[p]
        /\ (last'.op = "tick" /\ IsSource(last'.b)) => world'[last'.pos] = world[last'.pos]
      ]_vars

\* A tick has pushed its falling copy at a source of its own type below it,
\* which is still there.
C2_Witness ==
    /\ last.op = "tick"
    /\ SingleType(world)
    /\ \E i \in DOMAIN last.flows :
          /\ last.flows[i].falling
          /\ IsSource(world[last.flows[i].pos])
          /\ last.flows[i].ret

(***************************************************************************)
(* C3.  The tick of a liquid that is no source and has no sustaining       *)
(* neighbour only decays it: with depth - 4 <= 0 its position becomes air, *)
(* otherwise the same liquid at depth - 2*decay, not falling, which is     *)
(* less deep; no other position changes and no flowInto call or path       *)
(* search is made.                                                         *)
(***************************************************************************)
C3_PureDecay ==
    [][ PureDecayStep =>
          LET b == last'.b
              pos == last'.pos
          IN  /\ world' = [world EXCEPT ![pos] =
                              IF b.depth - 4 <= 0 THEN Air
                              ELSE LiquidBlock(b.type, b.depth - 2 * b.type, FALSE)]
              /\ (IsLiquid(world'[pos]) => world'[pos].depth < b.depth)
              /\ last'.flows = << >>
              /\ last'.branch \in {"remove", "decay"}
              /\ ~panicked'
      ]_vars

\* A falling liquid with nothing around has decayed to a liquid that does
\* not fall, above a position it could have fallen into.
C3_Witness ==
    /\ last.op = "tick"
    /\ last.branch = "decay"
    /\ last.b.falling
    /\ IsLiquid(world[last.pos]) /\ ~world[last.pos].falling
    /\ Block(world, Below(last.pos)) = Air

(***************************************************************************)
(* C4.  As claimed: one tick takes a liquid of depth 3 and decay 1 without *)
(* a sustaining neighbour to depth 1, still present.                       *)
(***************************************************************************)
C4_Original ==
    [][ (PureDecayStep /\ last'.b.depth = 3 /\ last'.b.type = 1)
           => world'[last'.pos] = LiquidBlock(1, 1, FALSE) ]_vars

(***************************************************************************)
(* C4, amended.  One tick removes a liquid of depth 3 and decay 1 without  *)
(* a sustaining neighbour (3 - 4 <= 0).  From depth 5 one tick takes it to *)
(* depth 3, still present, and the next tick of it removes it.             *)
(***************************************************************************)
C4_DecayScenario ==
    [][ /\ (PureDecayStep /\ last'.b.depth = 3 /\ last'.b.type = 1)
           => world'[last'.pos] = Air
        /\ (PureDecayStep /\ last'.b.depth = 5 /\ last'.b.type = 1)
           => world'[last'.pos] = LiquidBlock(1, 3, FALSE)
      ]_vars

\* Two ticks of one position: the first found depth 5, the second depth 3
\* and left air.
C4_Witness ==
    /\ last.op = "tick"
    /\ last.before = <<"tick", last.pos, LiquidBlock(1, 5, FALSE)>>
    /\ last.b = LiquidBlock(1, 3, FALSE)
    /\ last.branch = "remove"
    /\ world[last.pos] = Air

(***************************************************************************)
(* C6.  When a tick spreads sideways, the positions it flows into, not     *)
(* falling and with the liquid whose depth the tick spreads, are the first *)
(* steps of the returned paths of least length if the search returned any, *)
(* and the four horizontal neighbours otherwise.                           *)
(***************************************************************************)
C6_LateralTargets ==
    last.op = "tick" =>
        /\ (last.branch = "paths" =>
              /\ last.paths # << >>
              /\ LateralTargets(last) =
                    {last.paths[i][1] : i \in {j \in DOMAIN last.paths :
                                                 Len(last.paths[j]) = MinLen(last.paths)}})
        /\ (last.branch = "outwards" =>
              /\ last.paths = << >>
              /\ LateralTargets(last) = Range(HorizontalNeighbours(last.pos)))
        /\ (last.branch \notin {"paths", "outwards"} => LateralTargets(last) = {})
        /\ \A i \in DOMAIN last.flows :
              ~last.flows[i].falling =>
                 /\ last.flows[i].b.type = last.b.type
                 /\ last.flows[i].b.depth = (IF last.b.falling THEN FullDepth ELSE last.b.depth)
                 /\ last.flows[i].b.depth > last.b.type

\* A source has flowed into the first steps of two paths of two steps each,
\* and both now hold its liquid at depth - decay, not falling.
C6_Witness ==
    /\ last.op = "tick"
    /\ last.branch = "paths"
    /\ IsSource(last.b)
    /\ Cardinality(LateralTargets(last)) = 2
    /\ \A i \in DOMAIN last.paths : Len(last.paths[i]) = 2
    /\ \A t \in LateralTargets(last) :
          world[t] = LiquidBlock(last.b.type, FullDepth - last.b.type, FALSE)

(***************************************************************************)
(* The paths a search has to return, stated without the queue.             *)
(***************************************************************************)
\* A search node of the liquid b may stand on pos.
Passable(b, w, pos) == canFlowInto(b, w, pos, TRUE)

\* A node on pos ends a path: the liquid can go down from there.
Drop(b, w, pos) == Passable(b, w, pos) /\ canFlowInto(b, w, Below(pos), FALSE)

\* The depth left after n steps allows a node.
DepthAllows(b, n) == b.depth - 2 * b.type * n + SearchSlack > 0

WalkEnd(walk, pos) == IF walk = << >> THEN pos ELSE walk[Len(walk)]

StepsFrom(walk, pos) == Range(HorizontalNeighbours(WalkEnd(walk, pos))) \cap Pos

\* The walks of n steps from pos over positions a node may stand on, none
\* of which ends a path.
RECURSIVE OpenWalks(_, _, _, _)
OpenWalks(b, pos, w, n) ==
    IF n = 0 THEN {<< >>}
    ELSE IF ~DepthAllows(b, n) THEN {}
    ELSE UNION { { Append(walk, q) :
                     q \in { r \in StepsFrom(walk, pos) : Passable(b, w, r) /\ ~Drop(b, w, r) } }
                 : walk \in OpenWalks(b, pos, w, n - 1) }

\* The walks of n steps that end a path with their last step, and not before.
EndWalks(b, pos, w, n) ==
    IF n = 0 \/ ~DepthAllows(b, n) THEN {}
    ELSE UNION { { Append(walk, q) : q \in { r \in StepsFrom(walk, pos) : Drop(b, w, r) } }
                 : walk \in OpenWalks(b, pos, w, n - 1) }

ShortestWalks(b, pos, w) ==
    LET lens == { n \in 1..FullDepth : EndWalks(b, pos, w, n) # {} }
    IN  IF lens = {} THEN {}
        ELSE EndWalks(b, pos, w, CHOOSE n \in lens : \A m \in lens : n <= m)

IsPrefix(s, t) == Len(s) <= Len(t) /\ SubSeq(t, 1, Len(s)) = s

(***************************************************************************)
(* C5.  All paths one search returns have one length, the least length of  *)
(* a path there is: during the search every path found so far has the      *)
(* length shortestPath, shortestPath never increases and found paths stay, *)
(* and the result holds every walk of least length exactly once, walks to  *)
(* one end position included.                                              *)
(***************************************************************************)
C5_ShortestPaths ==
    [][ /\ search'.pc = "loop" =>
              /\ \A i \in DOMAIN search'.queue.paths :
                    Len(search'.queue.paths[i]) = search'.queue.shortestPath
              /\ search.pc = "loop" =>
                    /\ search'.queue.shortestPath <= search.queue.shortestPath
                    /\ IsPrefix(search.queue.paths, search'.queue.paths)
        /\ search'.pc = "done" =>
              /\ search'.result = search.queue.paths
              /\ \A i, j \in DOMAIN search'.result :
                    Len(search'.result[i]) = Len(search'.result[j])
              /\ Range(search'.result) = ShortestWalks(search'.b, search'.pos, world)
              /\ Len(search'.result) = Cardinality(ShortestWalks(search'.b, search'.pos, world))
      ]_vars

\* A search has returned two paths of two steps to one end position.
C5_Witness ==
    /\ search.pc = "done"
    /\ \E i, j \in DOMAIN search.result :
          /\ i # j
          /\ Len(search.result[i]) = 2
          /\ search.result[i][2] = search.result[j][2]

(***************************************************************************)
(* C7.  A flowInto call that is not falling, by a liquid with              *)
(* depth - decay <= 0, returns false and calls neither PlaceBlock nor      *)
(* BreakBlock nor Harden, whatever the target holds: the world is as it    *)
(* was.                                                                    *)
(***************************************************************************)
C7_ExhaustedNoMutation ==
    [][ (FlowStep /\ Exhausted(last')) =>
          /\ ~last'.ret
          /\ last'.calls = << >>
          /\ world' = world
          /\ ~panicked'
      ]_vars

\* Such a call has been made at a block that a flow would have broken, and
\* at a liquid of another type.
C7_Witness ==
    /\ last.op = "flowInto"
    /\ Exhausted(last)
    /\ ~last.ret
    /\ last.existing # Air
    /\ Block(world, last.pos) = last.existing
    /\ (FatalTarget(last.existing) \/ (IsLiquid(last.existing) /\ ~SameType(last.existing, last.b)))

\* The target of the call holds a liquid of the caller's type that is at
\* least as deep as what the call delivers, or falling.
SaturatedTarget(l) ==
    /\ SameType(l.existing, l.b)
    /\ (l.existing.depth >= Delivered(l) \/ l.existing.falling)

(***************************************************************************)
(* C8, as claimed.  A flowInto call at a liquid of the caller's type that  *)
(* is at least as deep as what the call delivers, or falling, returns true *)
(* and leaves the world as it was.                                         *)
(***************************************************************************)
C8_Original ==
    [][ (FlowStep /\ SaturatedTarget(last')) => (last'.ret /\ world' = world) ]_vars

(***************************************************************************)
(* C8, amended.  Such a call leaves the world as it was and calls nothing; *)
(* it returns true if it is falling or depth - decay > 0, and false        *)
(* otherwise.  The same call made again leaves the world as it was again.  *)
(***************************************************************************)
C8_SaturatedIdempotent ==
    [][ (FlowStep /\ SaturatedTarget(last')) =>
          LET l == last'
              again == flowInto(l.b, l.src, l.pos, world', l.falling, l.h)
          IN  /\ l.ret = ~Exhausted(l)
              /\ l.calls = << >>
              /\ world' = world
              /\ ~panicked'
              /\ again.w = world'
              /\ again.ret = l.ret
      ]_vars

\* A call that delivers more than the falling liquid at the target holds
\* has returned true and left it there.
C8_Witness ==
    /\ last.op = "flowInto"
    /\ SaturatedTarget(last)
    /\ last.existing.falling
    /\ last.existing.depth < Delivered(last)
    /\ last.ret
    /\ world[last.pos] = last.existing

\* The target of the call holds a liquid of another type.
OtherLiquidTarget(l) == IsLiquid(l.existing) /\ ~SameType(l.existing, l.b)

NoPlaceOrBreak(calls) == \A i \in DOMAIN calls : calls[i][1] \notin {"PlaceBlock", "BreakBlock"}

(***************************************************************************)
(* C9, as claimed.  A flowInto call at a liquid of another type calls that *)
(* liquid's Harden with the target and the source position, returns false, *)
(* calls neither PlaceBlock nor BreakBlock and leaves the block at the     *)
(* source position as it was.                                              *)
(***************************************************************************)
C9_Original ==
    [][ (FlowStep /\ OtherLiquidTarget(last')) =>
          /\ last'.calls = << <<"Harden", last'.pos, last'.src>> >>
          /\ ~last'.ret
          /\ world'[last'.src] = world[last'.src]
      ]_vars

(***************************************************************************)
(* C9, amended.  A flowInto call at a liquid of another type returns       *)
(* false, calls neither PlaceBlock nor BreakBlock and leaves the block at  *)
(* the source position as it was; it calls that liquid's Harden with the   *)
(* target and the source position, once, if the call is falling or         *)
(* depth - decay > 0, and calls nothing otherwise.                         *)
(***************************************************************************)
C9_HardenOnContact ==
    [][ (FlowStep /\ OtherLiquidTarget(last')) =>
          LET l == last' IN
          /\ ~l.ret
          /\ ~panicked'
          /\ NoPlaceOrBreak(l.calls)
          /\ world'[l.src] = world[l.src]
          /\ l.calls = (IF Exhausted(l) THEN << >> ELSE << <<"Harden", l.pos, l.src>> >>)
          /\ \A p \in Pos : p # l.pos => world'[p] = world[p]
          /\ Exhausted(l) => world' = world
      ]_vars

\* Harden has been called and has set the target position; the source is
\* where it was.
C9_Witness ==
    /\ last.op = "flowInto"
    /\ OtherLiquidTarget(last)
    /\ last.calls = << <<"Harden", last.pos, last.src>> >>
    /\ ~last.ret
    /\ world[last.pos] = Stone
    /\ world[last.src] = last.b

(***************************************************************************)
(* C10.  A flowInto call panics if and only if it gets past the depth      *)
(* check and the target holds a block that is no liquid, is removable by   *)
(* liquid, has drops and is no item; every other call returns.             *)
(***************************************************************************)
C10_PanicIff ==
    last.op = "flowInto" =>
        (panicked <=> (~Exhausted(last) /\ FatalTarget(last.existing)))

\* A call has panicked.
C10_Witness ==
    /\ last.op = "flowInto"
    /\ panicked
    /\ FatalTarget(last.existing)

\* The searches that hold the queue id.
Holders(id) == {s \in Searches : pool.procs[s].q = id}

CleanQueue(q) == q.nodes = << >> /\ q.i = 0 /\ q.shortestPath = MaxInt8

(***************************************************************************)
(* C11.  Whatever the interleaving of the searches: a queue is held by at  *)
(* most one search and is not in the pool while held; the queue a search   *)
(* has just got, and every queue in the pool, has no nodes, cursor 0 and   *)
(* shortestPath MaxInt8; and the paths a search has when it puts the queue *)
(* back are those of a search that runs alone on a fresh queue.            *)
(***************************************************************************)
C11_PoolIsolation ==
    /\ \A id \in DOMAIN pool.queues :
          /\ Cardinality(Holders(id)) <= 1
          /\ (id \in pool.free => Holders(id) = {} /\ CleanQueue(pool.queues[id]))
          /\ (id \notin pool.free => Holders(id) # {})
    /\ \A s \in Searches :
          LET pr == pool.procs[s] IN
          /\ (pr.pc = "got" => CleanQueue(pool.queues[pr.q]))
          /\ (pr.pc = "idle" /\ pr.runs > 0 =>
                 pr.paths = calculateLiquidPaths(pr.b, pr.pos, world))
          /\ (pr.pc = "idle" <=> pr.q = 0)

\* A search that ran before has got a clean queue again, while the other
\* search, in a later run of its own, is in its loop with a bound it found.
C11_Witness ==
    \E s, t \in Searches :
       /\ s # t
       /\ pool.procs[s].pc = "got"
       /\ pool.procs[s].runs > 0
       /\ Len(pool.queues) = 2
       /\ CleanQueue(pool.queues[pool.procs[s].q])
       /\ pool.procs[t].pc = "loop"
       /\ pool.procs[t].runs > 0
       /\ pool.queues[pool.procs[t].q].shortestPath < MaxInt8

\* The horizontal neighbours of pos and the position above it.
SustainSides(pos) == Range(HorizontalNeighbours(pos)) \cup {Above(pos)}

(***************************************************************************)
(* C12.  sourceAround holds for a liquid exactly when a liquid of its type *)
(* is directly above it, at any depth, or a liquid of its type at a        *)
(* horizontal neighbour is a source or strictly deeper.  So a liquid below *)
(* does not sustain it, a liquid of another type does not, and a           *)
(* horizontal neighbour of its type that is no source and not deeper does  *)
(* not.  tickLiquid decays a liquid that is no source when sourceAround    *)
(* does not hold.                                                          *)
(***************************************************************************)
C12_SustainedExactly ==
    last.op = "sourceAround" =>
        LET b == last.b
            pos == last.pos
            side(n) == Block(world, n)
        IN  /\ last.ret = HasSustainingNeighbour(b, pos, world)
            /\ (\A n \in SustainSides(pos) : ~SameType(side(n), b)) => ~last.ret
            /\ ( /\ ~SameType(side(Above(pos)), b)
                 /\ \A n \in Range(HorizontalNeighbours(pos)) :
                       SameType(side(n), b) =>
                          (~IsSource(side(n)) /\ side(n).depth <= b.depth) )
               => ~last.ret
            /\ SameType(side(Above(pos)), b) => last.ret
            /\ (~IsSource(b) /\ ~last.ret) =>
                  tickLiquid(b, pos, world, "none").branch \in {"remove", "decay"}

\* sourceAround has not held for a liquid with a source of its type below
\* it and a liquid of its type and depth beside it.
C12_Witness ==
    /\ last.op = "sourceAround"
    /\ ~last.ret
    /\ last.pos[2] = MaxY
    /\ SameType(Block(world, Below(last.pos)), last.b)
    /\ IsSource(Block(world, Below(last.pos)))
    /\ \E n \in Range(HorizontalNeighbours(last.pos)) :
          SameType(Block(world, n), last.b) /\ Block(world, n).depth = last.b.depth

\* The position holds air or a block that liquid removes: a liquid can go
\* down into it.
CanFallInto(w, pos) == Block(w, pos).kind = "air" \/ Block(w, pos).removable

\* The step is a tick of a liquid that is a source or has a sustaining
\* neighbour.
SustainedStep ==
    /\ last'.op = "tick"
    /\ (IsSource(last'.b) \/ HasSustainingNeighbour(last'.b, last'.pos, world))

(***************************************************************************)
(* C13.  The tick of a sustained liquid above a position it can go down    *)
(* into first calls flowInto, falling, with the liquid at depth 8 and      *)
(* falling, at the position below, whatever its own depth and decay; air   *)
(* below becomes that liquid.  If the liquid is no source this is the only *)
(* flowInto call and no horizontal neighbour changes; a source goes on to  *)
(* spread sideways in the same tick.                                       *)
(***************************************************************************)
C13_FallFirst ==
    [][ (SustainedStep /\ CanFallInto(world, Below(last'.pos))) =>
          LET b == last'.b
              pos == last'.pos
              flows == last'.flows
          IN  /\ Len(flows) >= 1
              /\ flows[1].b = LiquidBlock(b.type, FullDepth, TRUE)
              /\ flows[1].pos = Below(pos)
              /\ flows[1].falling
              /\ (world[Below(pos)] = Air =>
                     world'[Below(pos)] = LiquidBlock(b.type, FullDepth, TRUE))
              /\ (~IsSource(b) =>
                     /\ Len(flows) = 1
                     /\ last'.branch = "none"
                     /\ \A n \in Range(HorizontalNeighbours(pos)) :
                           Block(world', n) = Block(world, n))
              /\ (IsSource(b) =>
                     /\ last'.branch \in {"paths", "outwards"}
                     /\ LateralTargets(last') # {}
                     /\ \A i \in 2..Len(flows) : ~flows[i].falling)
      ]_vars

\* A liquid of as little depth as its decay, beside a source, has fallen:
\* the position below holds the falling liquid of depth 8, the neighbours
\* are as they were.
C13_Witness ==
    /\ last.op = "tick"
    /\ last.b.depth <= last.b.type
    /\ ~last.b.falling
    /\ Len(last.flows) = 1
    /\ last.flows[1].falling
    /\ last.flows[1].ret
    /\ Block(world, Below(last.pos)) = LiquidBlock(last.b.type, FullDepth, TRUE)
    /\ \E n \in Range(HorizontalNeighbours(last.pos)) : IsSource(Block(world, n))

(***************************************************************************)
(* C14.  The tick of a sustained falling liquid above a position it cannot *)
(* go down into spreads sideways as a liquid of depth 8, whatever depth it *)
(* stores: every flowInto call is made not falling with the liquid at      *)
(* depth 8, air it flows into becomes the liquid at depth 8 - decay, not   *)
(* falling, and the liquid's own position is not written.                  *)
(***************************************************************************)
C14_FallingIsFull ==
    [][ (SustainedStep /\ last'.b.falling /\ ~CanFallInto(world, Below(last'.pos))) =>
          LET b == last'.b
              pos == last'.pos
              flows == last'.flows
          IN  /\ last'.branch \in {"paths", "outwards"}
              /\ flows # << >>
              /\ \A i \in DOMAIN flows :
                    /\ ~flows[i].falling
                    /\ flows[i].b = LiquidBlock(b.type, FullDepth, TRUE)
                    /\ flows[i].pos \in Range(HorizontalNeighbours(pos))
                    /\ (Block(world, flows[i].pos) = Air =>
                           /\ flows[i].ret
                           /\ world'[flows[i].pos] =
                                 LiquidBlock(b.type, FullDepth - b.type, FALSE))
              /\ world'[pos] = world[pos]
              /\ \A i \in DOMAIN last'.calls : last'.calls[i][2] # pos
      ]_vars

\* A falling liquid that stores depth 1 has put depth 8 - decay beside it
\* and still stores depth 1.
C14_Witness ==
    /\ last.op = "tick"
    /\ last.b.falling
    /\ last.b.depth = 1
    /\ world[last.pos] = last.b
    /\ \E i \in DOMAIN last.flows :
          /\ last.flows[i].ret
          /\ world[last.flows[i].pos] = LiquidBlock(last.b.type, FullDepth - last.b.type, FALSE)

\* The positions a tick at pos may write: the one below and the four
\* horizontal neighbours.
TickFrame(pos) == {Below(pos)} \cup Range(HorizontalNeighbours(pos))

(***************************************************************************)
(* C17.  A tick at p that does not decay changes no position but the one   *)
(* below p and the four horizontal neighbours of p, and makes no call on   *)
(* the world or on a liquid at any other position: not at p, not above p,  *)
(* not at the second or a later step of a found path.                      *)
(***************************************************************************)
C17_TickFrame ==
    [][ (last'.op = "tick" /\ last'.branch \notin {"remove", "decay"}) =>
          /\ \A q \in Pos : q \notin TickFrame(last'.pos) => world'[q] = world[q]
          /\ \A i \in DOMAIN last'.calls : last'.calls[i][2] \in TickFrame(last'.pos)
          /\ \A i \in DOMAIN last'.flows : last'.flows[i].pos \in TickFrame(last'.pos)
      ]_vars

\* A tick has flowed into the first steps of paths of two steps, and the
\* second step is air still.
C17_Witness ==
    /\ last.op = "tick"
    /\ last.branch = "paths"
    /\ LateralTargets(last) # {}
    /\ \A t \in LateralTargets(last) : IsLiquid(world[t])
    /\ \E i \in DOMAIN last.paths :
          /\ Len(last.paths[i]) = 2
          /\ world[last.paths[i][2]] = Air
    /\ world[last.pos] = last.b

\* A search node of the liquid b may stand on pos: it holds air, or a block
\* that liquid removes and that is neither a liquid of depth 8 nor a liquid
\* of another type.
SidewaysOpen(b, w, pos) ==
    LET e == Block(w, pos) IN
    \/ e.kind = "air"
    \/ /\ e.removable
       /\ ~(IsLiquid(e) /\ (e.depth = FullDepth \/ e.type # b.type))

AreNeighbours(p, q) == q \in Range(HorizontalNeighbours(p))

\* path is a chain of horizontal steps from root that ends where the liquid
\* b can go down for the first time.
WellFormedPath(b, root, w, path) ==
    /\ path # << >>
    /\ AreNeighbours(root, path[1])
    /\ \A i \in 1..(Len(path) - 1) : AreNeighbours(path[i], path[i + 1])
    /\ \A i \in DOMAIN path :
          /\ path[i][2] = root[2]
          /\ SidewaysOpen(b, w, path[i])
          /\ (CanFallInto(w, Below(path[i])) <=> i = Len(path))

(***************************************************************************)
(* C15.  Every path of a search, found so far or returned, is not empty,   *)
(* lies at the y of the root, starts at a horizontal neighbour of the root *)
(* and goes on by horizontal neighbours; every position on it is open      *)
(* sideways; the liquid can go down below its last position and below no   *)
(* earlier one.                                                            *)
(***************************************************************************)
C15_PathShape ==
    /\ (search.pc = "loop" =>
          \A i \in DOMAIN search.queue.paths :
             WellFormedPath(search.b, search.pos, world, search.queue.paths[i]))
    /\ (search.pc = "done" =>
          \A i \in DOMAIN search.result :
             WellFormedPath(search.b, search.pos, world, search.result[i]))

\* A search has returned a path of two steps whose first step holds a block
\* that liquid removes.
C15_Witness ==
    /\ search.pc = "done"
    /\ \E i \in DOMAIN search.result :
          /\ Len(search.result[i]) = 2
          /\ world[search.result[i][1]] = Plant
          /\ world[search.result[i][2]] = Air

\* The depth the search has left after h steps, as the node stores it.
DepthLeft(b, hops) == b.depth - 2 * b.type * hops

\* Every node of the queue and every path found is within the depth and
\* within the bound.
NodesBounded ==
    search.pc = "loop" =>
        /\ \A i \in DOMAIN search.queue.nodes :
              LET node == search.queue.nodes[i] IN
              /\ node.depth = DepthLeft(search.b, NodeLen(node))
              /\ DepthLeft(search.b, NodeLen(node)) + SearchSlack > 0
              /\ NodeLen(node) <= search.queue.shortestPath
              /\ (search.b.depth = 8 /\ search.b.type = 1 => NodeLen(node) <= 5)
        /\ \A i \in DOMAIN search.queue.paths :
              LET hops == Len(search.queue.paths[i]) IN
              /\ DepthLeft(search.b, hops) + SearchSlack > 0
              /\ hops <= search.queue.shortestPath
              /\ (search.b.depth = 8 /\ search.b.type = 1 => hops <= 5)

(***************************************************************************)
(* C16.  Every search ends.  Every node it enqueues and every path it      *)
(* finds, at h steps from the root, has depth - 2*decay*h + 3 > 0 and h    *)
(* within shortestPath; for depth 8 and decay 1, h is at most 5.  A search *)
(* that is in its loop reaches its return.                                 *)
(***************************************************************************)
C16_SearchTerminates ==
    /\ []NodesBounded
    /\ (search.pc = "loop" ~> search.pc = "done")

\* A search of a source of decay 1 that finds nowhere to go down has used
\* up its queue, with a node five steps from the root in it.
C16_Witness ==
    /\ search.pc = "loop"
    /\ IsSource(search.b)
    /\ search.b.type = 1
    /\ QueueLen(search.queue) = 0
    /\ search.queue.paths = << >>
    /\ \E i \in DOMAIN search.queue.nodes : NodeLen(search.queue.nodes[i]) = 5

(***************************************************************************)
(* C18.  A flowInto call at a liquid of the caller's type leaves a liquid  *)
(* of that type there, at no less depth; when it writes the position, the  *)
(* liquid there was not falling and the depth written is greater than the  *)
(* depth it had.                                                           *)
(***************************************************************************)
C18_NeverLowers ==
    [][ (FlowStep /\ SameType(last'.existing, last'.b)) =>
          LET old == last'.existing
              new == world'[last'.pos]
          IN  /\ SameType(new, old)
              /\ new.depth >= old.depth
              /\ (last'.calls # << >> =>
                    /\ ~old.falling
                    /\ new.depth > old.depth
                    /\ last'.calls = << <<"PlaceBlock", last'.pos, new>> >>)
              /\ (old.falling => new = old)
      ]_vars

\* A call has overwritten a liquid of its type with a deeper one.
C18_Witness ==
    /\ last.op = "flowInto"
    /\ SameType(last.existing, last.b)
    /\ ~last.existing.falling
    /\ last.calls # << >>
    /\ last.ret
    /\ world[last.pos].depth > last.existing.depth

(***************************************************************************)
(* C19.  When a flowInto call panics, the block at the target has been     *)
(* broken by BreakBlock, the one call made, and no liquid has been placed: *)
(* the target holds neither its block nor a liquid.                        *)
(***************************************************************************)
C19_PanicAfterBreak ==
    (last.op = "flowInto" /\ panicked) =>
        /\ last.existing.kind = "block"
        /\ last.calls = << <<"BreakBlock", last.pos>> >>
        /\ Block(world, last.pos) # last.existing
        /\ ~IsLiquid(Block(world, last.pos))
        /\ Block(world, last.pos) = Air
        /\ world[last.src] = last.b

\* A falling call has panicked on a block with drops that is no item.
C19_Witness ==
    /\ last.op = "flowInto"
    /\ panicked
    /\ last.falling
    /\ last.existing = SolidBlock(TRUE, TRUE, FALSE)
    /\ last.pos = Below(last.src)
    /\ world[last.pos] = Air

NoLiquid == \A pos \in Pos : ~IsLiquid(world[pos])

(***************************************************************************)
(* C20.  In a world of one liquid type of decay 1 or 2, without a source   *)
(* and with falling liquids at depth 8 only, in which the liquid at every  *)
(* position is ticked again and again, all liquid disappears: from some    *)
(* state on no position holds a liquid.                                    *)
(***************************************************************************)
C20_LiquidDrains == <>[]NoLiquid

\* The liquid has spread to a second layer and a neighbour before it is
\* gone: a falling liquid below the top, and a liquid beside the top one.
C20_Witness ==
    /\ \E pos \in Pos : pos[2] < MaxY /\ IsLiquid(world[pos]) /\ world[pos].falling
    /\ \E pos \in Pos : pos[2] = MaxY /\ pos # Top /\ IsLiquid(world[pos])
    /\ ~IsLiquid(world[Top])

====
